---- MODULE Spec2Model ----
(***************************************************************************)
(* State machine of the Wordle game held by the App component              *)
(* (src/App.tsx): the grid of guesses, the cursor, the keyboard hints, the  *)
(* game status, the toast message, and the asynchronous continuations that  *)
(* are in flight (word fetch, word validation, delayed toast clearing).     *)
(* Rows and columns are 0-based as in the source; TLA+ sequences are        *)
(* 1-based, so grid[r + 1][c + 1] is the source's grid[r][c].               *)
(***************************************************************************)
EXTENDS Integers, Sequences, FiniteSets, TLC

\* ---------------------------------------------------------------- constants
MAX_GUESSES == 5
WORD_LENGTH == 5

\* ------------------------------------------------------------------- bounds
\* Number of words the provider may accept or hand out (a prefix of WordList).
NumWords == 3
\* Number of delayed toast-clearing callbacks that may be pending at once.
MaxTimers == 1
\* Number of letters of the exhaustive evaluation runs (SpecEval).
NumEvalLetters == 2

\* -------------------------------------------------------------------- enums
INITIAL == "initial"
CORRECT == "correct"
PRESENT == "present"
ABSENT == "absent"
LetterState == {INITIAL, CORRECT, PRESENT, ABSENT}

LOADING == "loading"
PLAYING == "playing"
VALIDATING == "validating"
WON == "won"
LOST == "lost"
GameStatus == {LOADING, PLAYING, VALIDATING, WON, LOST}

\* The message state is string | null. Strings are sequences of characters
\* (as secretWord is); null is a marker that no string's characters equal.
NoMessage == <<"null">>
TooShort == <<"T", "o", "o", " ", "s", "h", "o", "r", "t">>
NotAValidWord ==
    <<"N", "o", "t", " ", "a", " ", "v", "a", "l", "i", "d", " ", "w", "o", "r", "d">>
Splendid == <<"S", "P", "L", "E", "N", "D", "I", "D">>

\* ------------------------------------------------------------- environment
Alphabet == <<"A", "B", "C", "D">>
LowerCase == <<"a", "b", "c", "d">>
Min(a, b) == IF a < b THEN a ELSE b
\* The letter keys of the on-screen keyboard that the player uses.
Letters == {"A", "B"}
EvalLetters == {Alphabet[i] : i \in 1..Min(NumEvalLetters, Len(Alphabet))}

\* The strings matched by /^[A-Z]$/.
UpperCaseLetters ==
    {"A", "B", "C", "D", "E", "F", "G", "H", "I", "J", "K", "L", "M",
     "N", "O", "P", "Q", "R", "S", "T", "U", "V", "W", "X", "Y", "Z"}

\* Words of the provider: uppercase words of WORD_LENGTH letters.
WordList ==
    << <<"A", "B", "B", "B", "B">>,
       <<"B", "A", "B", "B", "B">>,
       <<"B", "A", "A", "B", "B">>,
       <<"A", "A", "B", "A", "B">>,
       <<"B", "B", "A", "C", "A">> >>
Dictionary == {WordList[i] : i \in 1..Min(NumWords, Len(WordList))}

\* fetchRandomWord(WORD_LENGTH) resolves with some word of the provider, or
\* with the empty string: initGame takes whatever string it is given.
FetchResults == Dictionary \cup {<<>>}

\* validateWordExistence(guess) resolves true only for words of the provider;
\* it may also resolve false for any guess.
ProviderAnswers(guess) == IF guess \in Dictionary THEN BOOLEAN ELSE {FALSE}

\* The keydown events: e.key, and whether ctrl, meta or alt is held.
KeyEvents ==
    {<<k, FALSE>> : k \in {"Enter", "Backspace", "Shift", "1", "a", "b"}}
        \cup {<<"Enter", TRUE>>, <<"a", TRUE>>}

\* String.prototype.toUpperCase on the keys.

ToUpperCase(k) ==
    IF \E i \in 1..Len(LowerCase) : LowerCase[i] = k
    THEN Alphabet[CHOOSE i \in 1..Len(LowerCase) : LowerCase[i] = k]
    ELSE CASE k = "Enter" -> "ENTER"
           [] k = "Backspace" -> "BACKSPACE"
           [] k = "Shift" -> "SHIFT"
           [] OTHER -> k

\* -------------------------------------------------------------------- state
VARIABLES
    secretWord,     \* sequence of letters ('' is the empty sequence)
    grid,           \* MAX_GUESSES rows of WORD_LENGTH tiles
    currentRow,
    currentCol,
    gameStatus,
    shakeRow,
    message,
    letterStates,   \* function from the letters that have an entry to LetterState
    fetches,        \* initGame calls suspended at `await fetchRandomWord`
    validations,    \* handleEnter calls suspended at `await validateWordExistence`,
                    \* each with the values its closure captured
    timers          \* pending setTimeout callbacks

vars == <<secretWord, grid, currentRow, currentCol, gameStatus, shakeRow,
          message, letterStates, fetches, validations, timers>>

EmptyTile == [char |-> "", state |-> INITIAL]
EmptyGrid == [r \in 1..MAX_GUESSES |-> [c \in 1..WORD_LENGTH |-> EmptyTile]]
NoLetterStates == [l \in {} |-> INITIAL]

\* ------------------------------------------------------------ array helpers
\* Array.prototype.indexOf, 1-based; 0 stands for the source's -1.
IndexOf(arr, x) ==
    IF \E i \in 1..Len(arr) : arr[i] = x
    THEN CHOOSE i \in 1..Len(arr) : arr[i] = x /\ \A j \in 1..(i - 1) : arr[j] # x
    ELSE 0

\* row.map(t => t.char).join('') read back as its sequence of characters
\* (the string itself, and what .split('') gives): a tile whose char is ''
\* contributes nothing.
JoinChars(row) ==
    LET chars == [i \in 1..Len(row) |-> row[i].char]
    IN  SelectSeq(chars, LAMBDA c : c # "")

RemoveAt(s, i) == SubSeq(s, 1, i - 1) \o SubSeq(s, i + 1, Len(s))

\* --------------------------------------------------------------- evaluation
\* The first pass with the matched secret letter left in place.
RECURSIVE FirstPassFromNoClear(_, _)
FirstPassFromNoClear(st, i) ==
    IF i > Len(st.guessArr) THEN st
    ELSE IF i <= Len(st.secretArr) /\ st.guessArr[i] = st.secretArr[i]
         THEN FirstPassFromNoClear(
                [rowTiles  |-> [st.rowTiles EXCEPT ![i].state = CORRECT],
                 secretArr |-> st.secretArr,
                 guessArr  |-> [st.guessArr EXCEPT ![i] = ""]],
                i + 1)
         ELSE FirstPassFromNoClear(st, i + 1)

\* First pass: Correct (Green). The forEach over guessArr from index i on;
\* st holds the three arrays the loop mutates.
RECURSIVE FirstPassFrom(_, _)
FirstPassFrom(st, i) ==
    IF i > Len(st.guessArr) THEN st
    ELSE IF i <= Len(st.secretArr) /\ st.guessArr[i] = st.secretArr[i]
         THEN FirstPassFrom(
                [rowTiles  |-> [st.rowTiles EXCEPT ![i].state = CORRECT],
                 secretArr |-> [st.secretArr EXCEPT ![i] = ""],
                 guessArr  |-> [st.guessArr EXCEPT ![i] = ""]],
                i + 1)
         ELSE FirstPassFrom(st, i + 1)

FirstPass(guessArr, secretArr, rowTiles) ==
    FirstPassFrom([rowTiles |-> rowTiles, secretArr |-> secretArr,
                   guessArr |-> guessArr], 1)

\* The second pass with the matched secret letter left in place (not marked
\* as used).
RECURSIVE SecondPassFromNoMark(_, _)
SecondPassFromNoMark(st, i) ==
    IF i > Len(st.rowTiles) THEN st
    ELSE IF st.rowTiles[i].state # CORRECT
         THEN LET char == st.rowTiles[i].char
                  indexInSecret == IndexOf(st.secretArr, char)
              IN  IF indexInSecret # 0
                  THEN SecondPassFromNoMark(
                         [rowTiles  |-> [st.rowTiles EXCEPT ![i].state = PRESENT],
                          secretArr |-> st.secretArr],
                         i + 1)
                  ELSE SecondPassFromNoMark(
                         [rowTiles  |-> [st.rowTiles EXCEPT ![i].state = ABSENT],
                          secretArr |-> st.secretArr],
                         i + 1)
         ELSE SecondPassFromNoMark(st, i + 1)

\* Second pass: Present (Yellow) or Absent (Gray). The forEach over rowTiles
\* from index i on; st holds rowTiles and secretArr.
RECURSIVE SecondPassFrom(_, _)
SecondPassFrom(st, i) ==
    IF i > Len(st.rowTiles) THEN st
    ELSE IF st.rowTiles[i].state # CORRECT
         THEN LET char == st.rowTiles[i].char
                  indexInSecret == IndexOf(st.secretArr, char)
              IN  IF indexInSecret # 0
                  THEN SecondPassFrom(
                         [rowTiles  |-> [st.rowTiles EXCEPT ![i].state = PRESENT],
                          secretArr |-> [st.secretArr EXCEPT ![indexInSecret] = ""]],
                         i + 1)
                  ELSE SecondPassFrom(
                         [rowTiles  |-> [st.rowTiles EXCEPT ![i].state = ABSENT],
                          secretArr |-> st.secretArr],
                         i + 1)
         ELSE SecondPassFrom(st, i + 1)

SecondPass(rowTiles, secretArr) ==
    SecondPassFrom([rowTiles |-> rowTiles, secretArr |-> secretArr], 1).rowTiles

\* The tiles of the submitted row after both passes: row is the captured
\* grid[currentRow], currentGuess its joined characters, secret the captured
\* secretWord.
EvaluateRow(row, currentGuess, secret) ==
    LET first == FirstPass(currentGuess, secret, row)
    IN  SecondPass(first.rowTiles, first.secretArr)

\* ---------------------------------------------------------- keyboard hints
\* The iteration with a PRESENT tile written over any entry (the test for
\* CORRECT left out).
UpgradeLetterStatePresentOverwrites(next, tile) ==
    LET hasEntry == tile.char \in DOMAIN next
        set(v) == [l \in DOMAIN next \cup {tile.char} |->
                     IF l = tile.char THEN v ELSE next[l]]
    IN  IF tile.state = CORRECT THEN set(CORRECT)
        ELSE IF tile.state = PRESENT THEN set(PRESENT)
        ELSE IF tile.state = ABSENT /\ ~hasEntry THEN set(ABSENT)
        ELSE next

\* The iteration with the tile's state written whatever the entry is.
UpgradeLetterStateLastWins(next, tile) ==
    [l \in DOMAIN next \cup {tile.char} |->
        IF l = tile.char THEN tile.state ELSE next[l]]

\* The iteration with an ABSENT tile written over any entry that is not
\* CORRECT (the test for an existing entry left out).
UpgradeLetterStateAbsentOverwrites(next, tile) ==
    LET hasEntry == tile.char \in DOMAIN next
        currentState == IF hasEntry THEN next[tile.char] ELSE "undefined"
        set(v) == [l \in DOMAIN next \cup {tile.char} |->
                     IF l = tile.char THEN v ELSE next[l]]
    IN  IF tile.state = CORRECT THEN set(CORRECT)
        ELSE IF tile.state = PRESENT /\ currentState # CORRECT THEN set(PRESENT)
        ELSE IF tile.state = ABSENT /\ currentState # CORRECT THEN set(ABSENT)
        ELSE next

\* One iteration of rowTiles.forEach inside setLetterStates: next is the
\* mapping built so far, tile the tile visited.
UpgradeLetterState(next, tile) ==
    LET hasEntry == tile.char \in DOMAIN next
        currentState == IF hasEntry THEN next[tile.char] ELSE "undefined"
        set(v) == [l \in DOMAIN next \cup {tile.char} |->
                     IF l = tile.char THEN v ELSE next[l]]
    IN  IF tile.state = CORRECT THEN set(CORRECT)
        ELSE IF tile.state = PRESENT /\ currentState # CORRECT THEN set(PRESENT)
        ELSE IF tile.state = ABSENT /\ ~hasEntry THEN set(ABSENT)
        ELSE next

RECURSIVE UpdateLetterStatesFrom(_, _, _)
UpdateLetterStatesFrom(next, rowTiles, i) ==
    IF i > Len(rowTiles) THEN next
    ELSE UpdateLetterStatesFrom(UpgradeLetterState(next, rowTiles[i]), rowTiles, i + 1)

\* The updater passed to setLetterStates.
UpdateLetterStates(prev, rowTiles) == UpdateLetterStatesFrom(prev, rowTiles, 1)

\* --------------------------------------------------------------- operations
\* useState initial values followed by the mount effect's initGame() up to
\* its await.
Init ==
    /\ secretWord = <<>>
    /\ grid = EmptyGrid
    /\ currentRow = 0
    /\ currentCol = 0
    /\ gameStatus = LOADING
    /\ shakeRow = FALSE
    /\ message = NoMessage
    /\ letterStates = NoLetterStates
    /\ fetches = 1
    /\ validations = <<>>
    /\ timers = 0

\* initGame with the keyboard hints left as they are.
InitGameKeepsLetterStates ==
    /\ gameStatus' = LOADING
    /\ message' = NoMessage
    /\ currentRow' = 0
    /\ currentCol' = 0
    /\ shakeRow' = FALSE
    /\ grid' = EmptyGrid
    /\ fetches' = fetches + 1
    /\ UNCHANGED <<secretWord, letterStates, validations, timers>>

\* initGame up to `await fetchRandomWord(WORD_LENGTH)`.
InitGame ==
    /\ gameStatus' = LOADING
    /\ message' = NoMessage
    /\ currentRow' = 0
    /\ currentCol' = 0
    /\ shakeRow' = FALSE
    /\ letterStates' = NoLetterStates
    /\ grid' = EmptyGrid
    /\ fetches' = fetches + 1
    /\ UNCHANGED <<secretWord, validations, timers>>

\* initGame after the await: the fetch resolved with word.
FetchResolves(word) ==
    /\ fetches > 0
    /\ fetches' = fetches - 1
    /\ secretWord' = word
    /\ gameStatus' = PLAYING
    /\ UNCHANGED <<grid, currentRow, currentCol, shakeRow, message,
                   letterStates, validations, timers>>

\* initGame's await throws: the fetch yields no word at all and the rest of
\* initGame does not run.
FetchFails ==
    /\ fetches > 0
    /\ fetches' = fetches - 1
    /\ UNCHANGED <<secretWord, grid, currentRow, currentCol, gameStatus, shakeRow,
                   message, letterStates, validations, timers>>

HandleKeyInput(key) ==
    IF gameStatus # PLAYING THEN UNCHANGED vars
    ELSE IF currentCol >= WORD_LENGTH THEN UNCHANGED vars
    ELSE /\ grid' = [grid EXCEPT ![currentRow + 1][currentCol + 1] =
                        [char |-> key, state |-> INITIAL]]
         /\ currentCol' = currentCol + 1
         /\ UNCHANGED <<secretWord, currentRow, gameStatus, shakeRow, message,
                        letterStates, fetches, validations, timers>>

\* handleDelete moving the cursor back with the tile left as it is.
HandleDeleteKeepsTile ==
    IF gameStatus # PLAYING THEN UNCHANGED vars
    ELSE IF currentCol <= 0 THEN UNCHANGED vars
    ELSE /\ currentCol' = currentCol - 1
         /\ UNCHANGED <<secretWord, grid, currentRow, gameStatus, shakeRow, message,
                        letterStates, fetches, validations, timers>>

\* handleDelete without its status guard.
HandleDeleteUnguarded ==
    IF currentCol <= 0 THEN UNCHANGED vars
    ELSE /\ grid' = [grid EXCEPT ![currentRow + 1][currentCol] = EmptyTile]
         /\ currentCol' = currentCol - 1
         /\ UNCHANGED <<secretWord, currentRow, gameStatus, shakeRow, message,
                        letterStates, fetches, validations, timers>>

HandleDelete ==
    IF gameStatus # PLAYING THEN UNCHANGED vars
    ELSE IF currentCol <= 0 THEN UNCHANGED vars
    ELSE /\ grid' = [grid EXCEPT ![currentRow + 1][currentCol] = EmptyTile]
         /\ currentCol' = currentCol - 1
         /\ UNCHANGED <<secretWord, currentRow, gameStatus, shakeRow, message,
                        letterStates, fetches, validations, timers>>

\* handleEnter with the length test off by one: a row one letter short is
\* sent to the provider.
HandleEnterShortByOne ==
    IF gameStatus # PLAYING THEN UNCHANGED vars
    ELSE IF currentCol < WORD_LENGTH - 1
    THEN /\ timers < MaxTimers
         /\ shakeRow' = TRUE
         /\ message' = TooShort
         /\ timers' = timers + 1
         /\ UNCHANGED <<secretWord, grid, currentRow, currentCol, gameStatus,
                        letterStates, fetches, validations>>
    ELSE /\ gameStatus' = VALIDATING
         /\ validations' = Append(validations,
                [currentGuess |-> JoinChars(grid[currentRow + 1]),
                 grid |-> grid,
                 currentRow |-> currentRow,
                 secretWord |-> secretWord])
         /\ UNCHANGED <<secretWord, grid, currentRow, currentCol, shakeRow,
                        message, letterStates, fetches, timers>>

\* handleEnter without its status guard.
HandleEnterUnguarded ==
    IF currentCol < WORD_LENGTH
    THEN /\ timers < MaxTimers
         /\ shakeRow' = TRUE
         /\ message' = TooShort
         /\ timers' = timers + 1
         /\ UNCHANGED <<secretWord, grid, currentRow, currentCol, gameStatus,
                        letterStates, fetches, validations>>
    ELSE /\ gameStatus' = VALIDATING
         /\ validations' = Append(validations,
                [currentGuess |-> JoinChars(grid[currentRow + 1]),
                 grid |-> grid,
                 currentRow |-> currentRow,
                 secretWord |-> secretWord])
         /\ UNCHANGED <<secretWord, grid, currentRow, currentCol, shakeRow,
                        message, letterStates, fetches, timers>>

\* handleEnter up to `await validateWordExistence(currentGuess)`. The
\* suspended call keeps the grid, currentRow and secretWord of its closure.
HandleEnter ==
    IF gameStatus # PLAYING THEN UNCHANGED vars
    ELSE IF currentCol < WORD_LENGTH
    THEN /\ timers < MaxTimers
         /\ shakeRow' = TRUE
         /\ message' = TooShort
         /\ timers' = timers + 1
         /\ UNCHANGED <<secretWord, grid, currentRow, currentCol, gameStatus,
                        letterStates, fetches, validations>>
    ELSE /\ gameStatus' = VALIDATING
         /\ validations' = Append(validations,
                [currentGuess |-> JoinChars(grid[currentRow + 1]),
                 grid |-> grid,
                 currentRow |-> currentRow,
                 secretWord |-> secretWord])
         /\ UNCHANGED <<secretWord, grid, currentRow, currentCol, shakeRow,
                        message, letterStates, fetches, timers>>

\* The rejection with the cursor moved to the next row, as after a wrong
\* guess.
RejectGuessAdvancesRow(call) ==
    /\ timers < MaxTimers
    /\ gameStatus' = PLAYING
    /\ shakeRow' = TRUE
    /\ message' = NotAValidWord
    /\ timers' = timers + 1
    /\ currentRow' = IF currentRow < MAX_GUESSES - 1 THEN currentRow + 1 ELSE currentRow
    /\ currentCol' = IF currentRow < MAX_GUESSES - 1 THEN 0 ELSE currentCol
    /\ UNCHANGED <<secretWord, grid, letterStates, fetches>>

\* The rejection with the status left at VALIDATING.
RejectGuessKeepsStatus(call) ==
    /\ timers < MaxTimers
    /\ shakeRow' = TRUE
    /\ message' = NotAValidWord
    /\ timers' = timers + 1
    /\ UNCHANGED <<secretWord, grid, currentRow, currentCol, gameStatus,
                   letterStates, fetches>>

\* handleEnter after the await, the provider having rejected the guess.
RejectGuess(call) ==
    /\ timers < MaxTimers
    /\ gameStatus' = PLAYING
    /\ shakeRow' = TRUE
    /\ message' = NotAValidWord
    /\ timers' = timers + 1
    /\ UNCHANGED <<secretWord, grid, currentRow, currentCol, letterStates, fetches>>

\* Check Win/Loss with the last-row test made before the win test.
CheckLossBeforeWin(call) ==
    IF call.currentRow = MAX_GUESSES - 1
    THEN /\ gameStatus' = LOST
         /\ message' = call.secretWord
         /\ UNCHANGED <<currentRow, currentCol>>
    ELSE IF call.currentGuess = call.secretWord
    THEN /\ gameStatus' = WON
         /\ message' = Splendid
         /\ UNCHANGED <<currentRow, currentCol>>
    ELSE /\ gameStatus' = PLAYING
         /\ currentRow' = currentRow + 1
         /\ currentCol' = 0
         /\ UNCHANGED message

\* Check Win/Loss with the cursor moved to the next row on a loss as well.
CheckWinLossAdvancesOnLoss(call) ==
    IF call.currentGuess = call.secretWord
    THEN /\ gameStatus' = WON
         /\ message' = Splendid
         /\ UNCHANGED <<currentRow, currentCol>>
    ELSE IF call.currentRow = MAX_GUESSES - 1
    THEN /\ gameStatus' = LOST
         /\ message' = call.secretWord
         /\ currentRow' = currentRow + 1
         /\ currentCol' = 0
    ELSE /\ gameStatus' = PLAYING
         /\ currentRow' = currentRow + 1
         /\ currentCol' = 0
         /\ UNCHANGED message

\* Check Win/Loss with the cursor sent back to the start of the same row
\* after a wrong guess.
CheckWinLossStaysOnRow(call) ==
    IF call.currentGuess = call.secretWord
    THEN /\ gameStatus' = WON
         /\ message' = Splendid
         /\ UNCHANGED <<currentRow, currentCol>>
    ELSE IF call.currentRow = MAX_GUESSES - 1
    THEN /\ gameStatus' = LOST
         /\ message' = call.secretWord
         /\ UNCHANGED <<currentRow, currentCol>>
    ELSE /\ gameStatus' = PLAYING
         /\ currentCol' = 0
         /\ UNCHANGED <<currentRow, message>>

\* Check Win/Loss with the last row taken to be row MAX_GUESSES.
CheckWinLossOffByOne(call) ==
    IF call.currentGuess = call.secretWord
    THEN /\ gameStatus' = WON
         /\ message' = Splendid
         /\ UNCHANGED <<currentRow, currentCol>>
    ELSE IF call.currentRow = MAX_GUESSES
    THEN /\ gameStatus' = LOST
         /\ message' = call.secretWord
         /\ UNCHANGED <<currentRow, currentCol>>
    ELSE /\ gameStatus' = PLAYING
         /\ currentRow' = currentRow + 1
         /\ currentCol' = 0
         /\ UNCHANGED message

\* Check Win/Loss, on the values of the suspended call's closure.
CheckWinLoss(call) ==
    IF call.currentGuess = call.secretWord
    THEN /\ gameStatus' = WON
         /\ message' = Splendid
         /\ UNCHANGED <<currentRow, currentCol>>
    ELSE IF call.currentRow = MAX_GUESSES - 1
    THEN /\ gameStatus' = LOST
         /\ message' = call.secretWord
         /\ UNCHANGED <<currentRow, currentCol>>
    ELSE /\ gameStatus' = PLAYING
         /\ currentRow' = currentRow + 1
         /\ currentCol' = 0
         /\ UNCHANGED message

\* handleEnter after the await, the provider having accepted the guess.
AcceptGuess(call) ==
    LET rowTiles == EvaluateRow(call.grid[call.currentRow + 1],
                                call.currentGuess, call.secretWord)
    IN  /\ grid' = [call.grid EXCEPT ![call.currentRow + 1] = rowTiles]
        /\ letterStates' = UpdateLetterStates(letterStates, rowTiles)
        /\ CheckWinLoss(call)
        /\ UNCHANGED <<secretWord, shakeRow, fetches, timers>>

\* The i-th suspended handleEnter resumes with the provider's answer.
ValidationResolves(i, isValid) ==
    /\ i \in 1..Len(validations)
    /\ validations' = RemoveAt(validations, i)
    /\ IF ~isValid THEN RejectGuess(validations[i])
                   ELSE AcceptGuess(validations[i])

\* A setTimeout callback of handleEnter runs.
TimerFires ==
    /\ timers > 0
    /\ timers' = timers - 1
    /\ shakeRow' = FALSE
    /\ message' = NoMessage
    /\ UNCHANGED <<secretWord, grid, currentRow, currentCol, gameStatus,
                   letterStates, fetches, validations>>

\* handleKeyDown with every key that is neither Enter nor Backspace passed on
\* to handleKeyInput (the /^[A-Z]$/ test left out).
KeyDownAnyKey(k, modifier) ==
    IF modifier THEN UNCHANGED vars
    ELSE LET key == ToUpperCase(k)
         IN  IF key = "ENTER"
             THEN IF gameStatus = WON \/ gameStatus = LOST
                  THEN InitGame
                  ELSE HandleEnter
             ELSE IF key = "BACKSPACE" THEN HandleDelete
             ELSE HandleKeyInput(key)

\* handleKeyDown of the physical keyboard listener: e.key is k, modifier
\* tells whether ctrl, meta or alt is held.
KeyDown(k, modifier) ==
    IF modifier THEN UNCHANGED vars
    ELSE LET key == ToUpperCase(k)
         IN  IF key = "ENTER"
             THEN IF gameStatus = WON \/ gameStatus = LOST
                  THEN InitGame
                  ELSE HandleEnter
             ELSE IF key = "BACKSPACE" THEN HandleDelete
             ELSE IF key \in UpperCaseLetters THEN HandleKeyInput(key)
             ELSE UNCHANGED vars

\* The on-screen keyboard's onKey, onEnter and onDelete.
KeyboardKey(key) == HandleKeyInput(key)
KeyboardEnter == HandleEnter
KeyboardDelete == HandleDelete

\* The button rendered whatever the status.
ControlsNextAlways == InitGame

\* The Play Again / Try Again button, rendered only when the game is over.
ControlsNext ==
    /\ gameStatus = WON \/ gameStatus = LOST
    /\ InitGame

Next ==
    \/ \E e \in KeyEvents : KeyDown(e[1], e[2])
    \/ \E key \in Letters : KeyboardKey(key)
    \/ KeyboardEnter
    \/ KeyboardDelete
    \/ ControlsNext
    \/ \E word \in FetchResults : FetchResolves(word)
    \/ FetchFails
    \/ \E i \in 1..Len(validations) :
         \E isValid \in ProviderAnswers(validations[i].currentGuess) :
            ValidationResolves(i, isValid)
    \/ TimerFires

Spec == Init /\ [][Next]_vars

\* ------------------------------------------- exhaustive evaluation of a row
\* Every guess over EvalLetters typed into the first row against every secret
\* word over EvalLetters, with a provider that may accept any guess.
EvalWords == [1..WORD_LENGTH -> EvalLetters]

InitEval ==
    /\ secretWord \in EvalWords
    /\ \E guess \in EvalWords :
         grid = [EmptyGrid EXCEPT ![1] =
                    [c \in 1..WORD_LENGTH |-> [char |-> guess[c], state |-> INITIAL]]]
    /\ currentRow = 0
    /\ currentCol = WORD_LENGTH
    /\ gameStatus = PLAYING
    /\ shakeRow = FALSE
    /\ message = NoMessage
    /\ letterStates = NoLetterStates
    /\ fetches = 0
    /\ validations = <<>>
    /\ timers = 0

NextEval ==
    \/ KeyboardEnter
    \/ \E i \in 1..Len(validations), isValid \in BOOLEAN :
         ValidationResolves(i, isValid)
    \/ TimerFires

SpecEval == InitEval /\ [][NextEval]_vars

\* ------------------------------------------------------------------- claims
Count(seq, P(_)) == Cardinality({i \in 1..Len(seq) : P(seq[i])})
RowEvaluated(row) == \E c \in 1..Len(row) : row[c].state # INITIAL
Credited(row, L) ==
    Count(row, LAMBDA t : t.char = L /\ t.state \in {PRESENT, CORRECT})
Occurrences(word, L) == Count(word, LAMBDA x : x = L)
Guessed(row, L) == Count(row, LAMBDA t : t.char = L)

\* C1: for every secret word and every submitted guess of the same length,
\* and every letter L, the evaluated row marks at most as many positions
\* holding L as PRESENT or CORRECT as L has occurrences in the secret word.
C1_NoOverCredit ==
    \A r \in 1..MAX_GUESSES : \A L \in UpperCaseLetters :
        RowEvaluated(grid[r]) => Credited(grid[r], L) <= Occurrences(secretWord, L)

\* An evaluated row guesses a letter more often than the secret word holds
\* it, and the secret word holds it: the credit is capped at the secret's
\* count and the surplus tile is ABSENT.
C1_Witness ==
    \E L \in UpperCaseLetters :
        /\ RowEvaluated(grid[1])
        /\ Occurrences(secretWord, L) >= 1
        /\ Guessed(grid[1], L) > Occurrences(secretWord, L)
        /\ Credited(grid[1], L) = Occurrences(secretWord, L)
        /\ \E c \in 1..WORD_LENGTH :
             grid[1][c].char = L /\ grid[1][c].state = ABSENT

\* C2: when the provider accepts a full-length guess equal to the secret
\* word, every tile of the submitted row becomes CORRECT and the status
\* becomes WON, on whichever row, with currentRow not advanced.
C2_ExactGuessWins ==
    [][\A i \in 1..Len(validations) :
         ( /\ ValidationResolves(i, TRUE)
           /\ Len(validations[i].currentGuess) = WORD_LENGTH
           /\ validations[i].currentGuess = secretWord )
         => /\ gameStatus' = WON
            /\ currentRow' = currentRow
            /\ \A c \in 1..WORD_LENGTH :
                 /\ grid'[currentRow + 1][c].state = CORRECT
                 /\ grid'[currentRow + 1][c].char = secretWord[c]]_vars

\* The game is won with the guess of the last row.
C2_Witness ==
    /\ gameStatus = WON
    /\ currentRow = MAX_GUESSES - 1
    /\ \A c \in 1..WORD_LENGTH : grid[MAX_GUESSES][c].state = CORRECT

\* C3: an accepted guess that differs from the secret word, submitted on
\* row MAX_GUESSES - 1, makes the status LOST and the message the secret
\* word; submitted on an earlier row it returns the status to PLAYING with
\* currentRow increased by exactly 1 and currentCol reset to 0.
C3_WrongGuessLosesOrAdvances ==
    [][\A i \in 1..Len(validations) :
         ( /\ ValidationResolves(i, TRUE)
           /\ validations[i].currentGuess # secretWord )
         => IF currentRow = MAX_GUESSES - 1
            THEN /\ gameStatus' = LOST
                 /\ message' = secretWord
            ELSE /\ gameStatus' = PLAYING
                 /\ currentRow' = currentRow + 1
                 /\ currentCol' = 0]_vars

\* The game is lost on the last row and the secret word is shown.
C3_Witness ==
    /\ gameStatus = LOST
    /\ currentRow = MAX_GUESSES - 1
    /\ message = secretWord
    /\ JoinChars(grid[MAX_GUESSES]) # secretWord

HintRank(ls, L) ==
    IF L \notin DOMAIN ls THEN 0
    ELSE CASE ls[L] = ABSENT -> 1
           [] ls[L] = PRESENT -> 2
           [] ls[L] = CORRECT -> 3
           [] OTHER -> 0

\* The steps that are a restart: the button, or Enter on the physical
\* keyboard, while the game is over.
Restart ==
    /\ gameStatus \in {WON, LOST}
    /\ ControlsNext \/ KeyDown("Enter", FALSE)

\* The player's intents, from either keyboard or the button.
TypeChar == \E key \in UpperCaseLetters : HandleKeyInput(key)
PlayerIntent ==
    \/ \E e \in KeyEvents : KeyDown(e[1], e[2])
    \/ \E key \in Letters : KeyboardKey(key)
    \/ KeyboardEnter
    \/ KeyboardDelete
    \/ ControlsNext

\* C4: within one game the keyboard hint of every letter only moves upward
\* in the order no entry < ABSENT < PRESENT < CORRECT; entries are removed
\* only by restart.
C4_HintsOnlyUpgrade ==
    [][\/ \A L \in UpperCaseLetters :
            HintRank(letterStates', L) >= HintRank(letterStates, L)
       \/ Restart /\ letterStates' = NoLetterStates]_vars

\* A letter's hint is PRESENT although an evaluated tile holding that letter
\* is ABSENT: the ABSENT tile did not lower the hint.
C4_Witness ==
    \E L \in DOMAIN letterStates :
        /\ letterStates[L] = PRESENT
        /\ \E r \in 1..MAX_GUESSES, c \in 1..WORD_LENGTH :
             grid[r][c].char = L /\ grid[r][c].state = ABSENT

\* C5: submit while PLAYING with currentCol < WORD_LENGTH starts no provider
\* validation, changes none of status, currentRow, currentCol, grid and
\* letterStates, and only raises the too-short signal.
C5_TooShortChangesNothing ==
    [][(gameStatus = PLAYING /\ currentCol < WORD_LENGTH /\ HandleEnter)
         => /\ UNCHANGED <<gameStatus, currentRow, currentCol, grid, letterStates,
                           validations, fetches, secretWord>>
            /\ message' = TooShort
            /\ shakeRow' = TRUE]_vars

\* The too-short signal is up on a row that is one letter short.
C5_Witness ==
    /\ gameStatus = PLAYING
    /\ currentCol = WORD_LENGTH - 1
    /\ message = TooShort
    /\ shakeRow
    /\ validations = <<>>

\* C6: when the provider rejects the guess the status returns from
\* VALIDATING to PLAYING with currentRow, currentCol, the grid and
\* letterStates exactly as they were when submit was issued: submit leaves
\* them as they are, nothing but an accepted guess changes them while
\* VALIDATING, and the rejection leaves the row and the grid that the
\* submit captured.
C6_RejectionRestoresPlaying ==
    [][/\ (gameStatus = PLAYING /\ gameStatus' = VALIDATING)
            => UNCHANGED <<currentRow, currentCol, grid, letterStates>>
       /\ gameStatus = VALIDATING
            => \/ UNCHANGED <<currentRow, currentCol, grid, letterStates>>
               \/ \E i \in 1..Len(validations) : ValidationResolves(i, TRUE)
       /\ \A i \in 1..Len(validations) :
            ValidationResolves(i, FALSE)
            => /\ gameStatus = VALIDATING
               /\ gameStatus' = PLAYING
               /\ UNCHANGED <<currentRow, currentCol, grid, letterStates>>
               /\ currentRow' = validations[i].currentRow
               /\ grid' = validations[i].grid
               /\ currentCol' = WORD_LENGTH
               /\ \A c \in 1..WORD_LENGTH :
                    grid'[currentRow' + 1][c].state = INITIAL]_vars

\* A guess was rejected on a row after the first: the game is PLAYING again
\* with the full row still in place.
C6_Witness ==
    /\ gameStatus = PLAYING
    /\ message = NotAValidWord
    /\ currentRow > 0
    /\ currentCol = WORD_LENGTH
    /\ \A c \in 1..WORD_LENGTH :
         grid[currentRow + 1][c].char # "" /\ grid[currentRow + 1][c].state = INITIAL

\* C7: typeChar, delete and submit while the status is LOADING, VALIDATING,
\* WON or LOST change nothing and start no provider call; while a fetch or a
\* validation is pending no player intent changes the state.
C7_IntentsIgnoredUnlessPlaying ==
    [][/\ (gameStatus \in {LOADING, VALIDATING, WON, LOST}
             /\ (TypeChar \/ HandleDelete \/ HandleEnter))
          => UNCHANGED vars
       /\ ((fetches > 0 \/ validations # <<>>) /\ PlayerIntent)
          => UNCHANGED vars]_vars

\* A validation is pending on a full row: delete and typeChar would act on
\* it were the status PLAYING.
C7_Witness ==
    /\ gameStatus = VALIDATING
    /\ validations # <<>>
    /\ currentCol = WORD_LENGTH
    /\ currentRow > 0

\* C8: at most one provider validation is in flight: a validation is started
\* only when none is pending, and no row is evaluated twice.
C8_OneValidationInFlight ==
    [][/\ Len(validations') <= 1
       /\ Len(validations') > Len(validations) => validations = <<>>
       /\ \A r \in 1..MAX_GUESSES :
            (grid'[r] # grid[r] /\ RowEvaluated(grid'[r])) => ~RowEvaluated(grid[r])]_vars

\* A validation is in flight after an earlier row was evaluated.
C8_Witness ==
    /\ Len(validations) = 1
    /\ currentRow > 0
    /\ RowEvaluated(grid[1])

StatusEdges ==
    {<<LOADING, PLAYING>>, <<PLAYING, VALIDATING>>, <<VALIDATING, PLAYING>>,
     <<VALIDATING, WON>>, <<VALIDATING, LOST>>, <<WON, LOADING>>, <<LOST, LOADING>>}

\* C9: the status changes only along LOADING->PLAYING, PLAYING->VALIDATING,
\* VALIDATING->PLAYING, VALIDATING->WON, VALIDATING->LOST, WON->LOADING and
\* LOST->LOADING, and a word fetch is started (restart takes effect) only
\* from WON or LOST.
C9_StatusEdges ==
    [][/\ gameStatus' # gameStatus => <<gameStatus, gameStatus'>> \in StatusEdges
       /\ fetches' > fetches => gameStatus \in {WON, LOST}]_vars

\* The game is LOADING again after a game that was played: a restart took
\* the edge from WON or LOST.
C9_Witness ==
    /\ gameStatus = LOADING
    /\ secretWord \in Dictionary

\* C10: restart from WON or LOST sets the status to LOADING and resets
\* currentRow, currentCol, letterStates, the grid and the message while a
\* new word fetch begins; the status leaves LOADING for PLAYING only when a
\* fetch completes, with secretWord the fetched word.
C10_RestartResets ==
    [][/\ Restart
          => /\ gameStatus' = LOADING
             /\ currentRow' = 0
             /\ currentCol' = 0
             /\ letterStates' = NoLetterStates
             /\ \A r \in 1..MAX_GUESSES, c \in 1..WORD_LENGTH :
                  grid'[r][c] = [char |-> "", state |-> INITIAL]
             /\ message' = NoMessage
             /\ fetches' = fetches + 1
       /\ (gameStatus = LOADING /\ gameStatus' # LOADING)
          => /\ gameStatus' = PLAYING
             /\ fetches' = fetches - 1
             /\ \E word \in FetchResults : FetchResolves(word) /\ secretWord' = word]_vars

\* The state right after a restart: everything reset and a fetch pending,
\* the previous game's secret word still held.
C10_Witness ==
    /\ gameStatus = LOADING
    /\ secretWord # <<>>
    /\ fetches = 1
    /\ grid = EmptyGrid
    /\ letterStates = NoLetterStates
    /\ currentRow = 0
    /\ currentCol = 0
    /\ message = NoMessage

\* C11: the game leaves LOADING for PLAYING only when the word fetch
\* returned a non-empty word; with an empty word, or no word at all, the
\* status stays LOADING and play never starts with an empty secretWord.
C11_NoPlayWithoutWord ==
    gameStatus \in {PLAYING, VALIDATING, WON, LOST} => secretWord # <<>>

\* C12: every tile's char is empty or a single uppercase letter; a tile is
\* non-empty only in a row below currentRow or in row currentRow at a column
\* below currentCol; the tiles of the active row from currentCol on and of
\* all later rows are empty with state INITIAL.
C12_GridShape ==
    \A r \in 1..MAX_GUESSES, c \in 1..WORD_LENGTH :
        /\ grid[r][c].char \in UpperCaseLetters \cup {""}
        /\ grid[r][c].char # ""
             => (r - 1 < currentRow \/ (r - 1 = currentRow /\ c - 1 < currentCol))
        /\ (r - 1 > currentRow \/ (r - 1 = currentRow /\ c - 1 >= currentCol))
             => grid[r][c] = [char |-> "", state |-> INITIAL]

\* The player is in the middle of a row after some rows were submitted and
\* after a delete left the row shorter than it had been typed: a message of a
\* rejected full row is still up.
C12_Witness ==
    /\ gameStatus = PLAYING
    /\ currentRow >= 2
    /\ currentCol \in 1..(WORD_LENGTH - 1)
    /\ message = NotAValidWord

\* The keydown events whose key is malformed: not Enter, not Backspace and,
\* upper-cased, not a single letter A-Z.
MalformedKeyEvents ==
    {e \in KeyEvents :
        ToUpperCase(e[1]) \notin UpperCaseLetters \cup {"ENTER", "BACKSPACE"}}

Exact(guess, secret, i) == i <= Len(secret) /\ guess[i] = secret[i]
ReferenceState(guess, secret, i) ==
    LET L == guess[i]
        before == Cardinality({k \in 1..(i - 1) :
                                 guess[k] = L /\ ~Exact(guess, secret, k)})
        unmatched == Cardinality({j \in 1..Len(secret) :
                                    /\ secret[j] = L
                                    /\ ~(j <= Len(guess) /\ guess[j] = secret[j])})
    IN  IF Exact(guess, secret, i) THEN CORRECT
        ELSE IF before < unmatched THEN PRESENT
        ELSE ABSENT

\* C14: the evaluation of a row equals the two-pass reference, a function of
\* (guess, secret) alone: tile i is CORRECT exactly when guess[i] = secret[i],
\* and for each letter the leftmost min(g, s) non-CORRECT positions holding it
\* are PRESENT and the rest ABSENT; the characters are kept.
C14_EvaluationIsReference ==
    \A r \in 1..MAX_GUESSES :
        RowEvaluated(grid[r])
        => LET guess == [c \in 1..WORD_LENGTH |-> grid[r][c].char]
           IN  \A c \in 1..WORD_LENGTH :
                   /\ guess[c] # ""
                   /\ grid[r][c].state = ReferenceState(guess, secretWord, c)

\* An evaluated row holds, for one letter, a CORRECT tile, a PRESENT tile and
\* an ABSENT tile: the exact match, one unmatched occurrence claimed by the
\* leftmost other position, and a surplus position.
C14_Witness ==
    \E L \in UpperCaseLetters :
        \E a, b, c \in 1..WORD_LENGTH :
            /\ grid[1][a] = [char |-> L, state |-> CORRECT]
            /\ grid[1][b] = [char |-> L, state |-> PRESENT]
            /\ grid[1][c] = [char |-> L, state |-> ABSENT]
            /\ b < c

\* C15: 0 <= currentCol <= WORD_LENGTH and 0 <= currentRow <= MAX_GUESSES - 1
\* in every reachable state; typeChar at currentCol = WORD_LENGTH and delete
\* at currentCol = 0 are no-ops, and neither the winning nor the losing
\* guess advances currentRow.
C15_CursorInRange ==
    /\ [](/\ currentCol \in 0..WORD_LENGTH
          /\ currentRow \in 0..(MAX_GUESSES - 1))
    /\ [][/\ (currentCol = WORD_LENGTH /\ TypeChar) => UNCHANGED vars
          /\ (currentCol = 0 /\ HandleDelete) => UNCHANGED vars
          /\ (gameStatus # gameStatus' /\ gameStatus' \in {WON, LOST})
               => currentRow' = currentRow]_vars

\* The game is lost with the cursor on the last row, at the end of it.
C15_Witness ==
    /\ gameStatus = LOST
    /\ currentRow = MAX_GUESSES - 1
    /\ currentCol = WORD_LENGTH

\* C16: once a row has been evaluated its tiles never change again until
\* restart, whatever step is taken; the evaluated rows are the rows below
\* currentRow and, while the status is WON or LOST, the final row.
C16_EvaluatedRowsFrozen ==
    [][/\ \A r \in 1..MAX_GUESSES :
            RowEvaluated(grid[r])
            => \/ grid'[r] = grid[r]
               \/ Restart /\ grid' = EmptyGrid
       /\ \A r \in 1..MAX_GUESSES :
            RowEvaluated(grid'[r])
            <=> \/ r - 1 < currentRow'
                \/ r - 1 = currentRow' /\ gameStatus' \in {WON, LOST}]_vars

\* The player types on the third row or later while a toast timer of an
\* earlier signal is pending.
C16_Witness ==
    /\ gameStatus = PLAYING
    /\ currentRow >= 2
    /\ currentCol >= 1
    /\ timers > 0
    /\ RowEvaluated(grid[1]) /\ RowEvaluated(grid[2])

EvaluatedTiles ==
    {grid[r][c] : r \in {q \in 1..MAX_GUESSES : RowEvaluated(grid[q])},
                  c \in 1..WORD_LENGTH}
StateRank(st) ==
    CASE st = ABSENT -> 1
      [] st = PRESENT -> 2
      [] st = CORRECT -> 3
      [] OTHER -> 0

\* C17: letterStates has exactly one entry for each letter that occurs in
\* some evaluated row of the current game and no other entry, and the entry
\* of a letter is the most informative state (ABSENT < PRESENT < CORRECT)
\* that an evaluated tile holding the letter has received.
C17_HintsAreBestSeen ==
    /\ DOMAIN letterStates = {t.char : t \in EvaluatedTiles}
    /\ \A L \in DOMAIN letterStates :
         /\ \E t \in EvaluatedTiles : t.char = L /\ t.state = letterStates[L]
         /\ \A t \in EvaluatedTiles :
              t.char = L => StateRank(t.state) <= StateRank(letterStates[L])

\* A letter was CORRECT in one row and only PRESENT in a later row: its
\* hint is CORRECT.
C17_Witness ==
    \E L \in DOMAIN letterStates : \E r1, r2 \in 1..MAX_GUESSES :
        /\ r1 < r2
        /\ RowEvaluated(grid[r2])
        /\ \E c \in 1..WORD_LENGTH : grid[r1][c] = [char |-> L, state |-> CORRECT]
        /\ \E c \in 1..WORD_LENGTH : grid[r2][c] = [char |-> L, state |-> PRESENT]
        /\ \A c \in 1..WORD_LENGTH : grid[r2][c] # [char |-> L, state |-> CORRECT]
        /\ letterStates[L] = CORRECT

InSecret(L) == \E j \in 1..Len(secretWord) : secretWord[j] = L

\* C18: if letterStates maps a letter to ABSENT the letter does not occur in
\* the secret word: an ABSENT tile of a letter that the secret word holds
\* comes in the same row with a PRESENT or CORRECT tile of that letter.
C18_AbsentHintIsTrue ==
    /\ \A L \in DOMAIN letterStates : letterStates[L] = ABSENT => ~InSecret(L)
    /\ \A r \in 1..MAX_GUESSES, c \in 1..WORD_LENGTH :
         (grid[r][c].state = ABSENT /\ InSecret(grid[r][c].char))
         => \E d \in 1..WORD_LENGTH :
              /\ grid[r][d].char = grid[r][c].char
              /\ grid[r][d].state \in {PRESENT, CORRECT}

\* An evaluated row holds an ABSENT tile of a letter that the secret word
\* holds, the letter's last tile of the row being the ABSENT one; the hint
\* of the letter is not ABSENT.
C18_Witness ==
    \E r \in 1..MAX_GUESSES, c \in 1..WORD_LENGTH :
        /\ grid[r][c].state = ABSENT
        /\ InSecret(grid[r][c].char)
        /\ \A d \in (c + 1)..WORD_LENGTH : grid[r][d].char # grid[r][c].char
        /\ letterStates[grid[r][c].char] \in {PRESENT, CORRECT}

\* C19: once the status is LOST the message is the secret word and stays so
\* until restart, whatever timer of an earlier too-short or invalid-word
\* signal is still pending; likewise the win message is not cleared while the
\* status is WON.
C19_EndMessageStays ==
    /\ gameStatus = LOST => message = secretWord
    /\ gameStatus = WON => message = Splendid

AcceptStep == \E i \in 1..Len(validations) : ValidationResolves(i, TRUE)
EvaluatedCount == Cardinality({r \in 1..MAX_GUESSES : RowEvaluated(grid[r])})

\* C20: a game ends within its attempt budget. Each accepted guess evaluates
\* one more row and either ends the game or moves to the next row, which
\* exists; the game is over when MAX_GUESSES rows are evaluated; every other
\* step (a too-short or a rejected submission among them) leaves the
\* evaluated rows and currentRow as they are, unless it is a restart; and if
\* accepted guesses keep coming, the status is WON or LOST again and again.
C20_GameEndsWithinBudget ==
    /\ [][/\ AcceptStep
               => /\ EvaluatedCount' = EvaluatedCount + 1
                  /\ \/ gameStatus' \in {WON, LOST} /\ currentRow' = currentRow
                     \/ /\ gameStatus' = PLAYING
                        /\ currentRow' = currentRow + 1
                        /\ currentRow' <= MAX_GUESSES - 1
          /\ ~AcceptStep
               => \/ EvaluatedCount' = EvaluatedCount /\ currentRow' = currentRow
                  \/ Restart /\ EvaluatedCount' = 0 /\ currentRow' = 0
          /\ EvaluatedCount' = MAX_GUESSES => gameStatus' \in {WON, LOST}]_vars
    /\ ([]<><<AcceptStep>>_vars => []<>(gameStatus \in {WON, LOST}))

\* The last guess of the budget is being validated after a too-short and a
\* rejected submission were made in the game: four rows are evaluated.
C20_Witness ==
    /\ gameStatus = VALIDATING
    /\ currentRow = MAX_GUESSES - 1
    /\ EvaluatedCount = MAX_GUESSES - 1
    /\ message = NotAValidWord

====
